---- MODULE Spec2Model ----
(***************************************************************************)
(* Keepitbased: market-data normalisation (kraken_api_provider.py) and the *)
(* cached equity service (python-service/stock_service.py).                *)
(*                                                                         *)
(* Python values are represented as follows.                               *)
(*   None             the record None                                      *)
(*   Optional[int]    a sequence of length 0 (None) or 1 (<<k>>)           *)
(*   dict             a record; a key is present iff it is in DOMAIN       *)
(*   provider text    [txt |-> "num", val |-> n] for the decimal text of   *)
(*                    n, [txt |-> "junk", val |-> 0] for unparsable text   *)
(*   float            an integer, or a ratio [n |-> num, d |-> den]        *)
(* Wall-clock fields ('timestamp') are left out of every result.           *)
(***************************************************************************)
EXTENDS Integers, Sequences, FiniteSets, Bags, TLC

VARIABLES kcall, kret, redis_client, store, req, resp, trace, nreq, inflight

vars == <<kcall, kret, redis_client, store, req, resp, trace, nreq, inflight>>
kvars == <<kcall, kret>>
svars == <<redis_client, store, req, resp, trace, nreq, inflight>>

(***************************************************************************)
(* Bounds of the explored inputs                                           *)
(***************************************************************************)
MaxCandles == 3
MaxTime == 2
MaxClose == 2
MaxBars == 52
MaxRequests == 2
MaxLevels == 3

(***************************************************************************)
(* Python helpers                                                          *)
(***************************************************************************)
None == [type |-> "NoneType"]

\* the empty dict {}
EmptyDict == [keys |-> {}]

Min(a, b) == IF a < b THEN a ELSE b
Max(a, b) == IF a > b THEN a ELSE b

\* provider text
Num(n) == [txt |-> "num", val |-> n]
Junk == [txt |-> "junk", val |-> 0]

\* float(x) / int(x) on provider text: raises ValueError on junk
parses(raw) == raw.txt = "num"
float_(raw) == raw.val

\* seq[-k:] for k > 0
TailSlice(s, k) == SubSeq(s, Max(1, Len(s) - k + 1), Len(s))

\* seq[-k:] taken where seq[:k] is meant
HeadSliceFromEnd(s, k) == SubSeq(s, Max(1, Len(s) - k + 1), Len(s))

\* seq[:k] (a negative k drops the last -k entries)
HeadSlice(s, k) == IF k >= 0 THEN SubSeq(s, 1, Min(k, Len(s)))
                   ELSE SubSeq(s, 1, Max(0, Len(s) + k))

\* list.sort(key=lambda x: x['time']), a stable sort: insert x after every
\* entry whose time is not greater
RECURSIVE InsertByTime(_, _)
InsertByTime(x, s) ==
    IF s = <<>> THEN <<x>>
    ELSE IF s[Len(s)].time <= x.time THEN Append(s, x)
    ELSE Append(InsertByTime(x, SubSeq(s, 1, Len(s) - 1)), s[Len(s)])

\* the sort left out
SortByTimeUnsorted(s) == s

RECURSIVE SortByTime(_)
SortByTime(s) ==
    IF s = <<>> THEN <<>>
    ELSE InsertByTime(s[Len(s)], SortByTime(SubSeq(s, 1, Len(s) - 1)))

(***************************************************************************)
(* KrakenDataProvider.get_ohlc_data                                        *)
(***************************************************************************)
Pairs == {"XXBTZUSD", "XETHZUSD"}

\* self.kraken.get_ohlc_data raised
FetchError == [kind |-> "raise"]

\* a response with one pair key and its candle rows
Response(k, rows) == [kind |-> "resp", key |-> k, rows |-> rows]

\* a provider candle row [time, open, high, low, close, vwap, volume, trades];
\* the seven numeric columns after time are parsed alike and are carried by
\* 'close'
RawTexts == {Num(c) : c \in 1..MaxClose} \cup {Junk}
\* the close column of a candle row: a number or an unparsable text
CandleTexts == {Num(MaxClose), Junk}
RawCandles == [time : 1..MaxTime, close : CandleTexts]

RowParses(candle) == parses(candle.close)
ProcessCandle(candle) == [time |-> candle.time, close |-> float_(candle.close)]

interval_mapping == {1, 5, 15, 30, 60, 240, 1440}

\* interval_mapping.get(interval, 60): the interval asked of the provider
kraken_interval(interval) == IF interval \in interval_mapping THEN interval ELSE 60

OhlcEmpty(pair) == [symbol |-> pair, data |-> <<>>, count |-> 0]

\* lines 191-193: except Exception: log, return the empty result
OhlcOnError(pair) == OhlcEmpty(pair)

\* the limit ignored: every candle kept
ApplyLimitKeepAll(processed, limit) == SortByTime(processed)

\* lines 173-178: truncate, then sort
ApplyLimit(processed, limit) ==
    IF limit # <<>> /\ limit[1] # 0 /\ limit[1] > 0
    THEN SortByTime(TailSlice(processed, limit[1]))
    ELSE SortByTime(processed)

get_ohlc_data(payload, pair, interval, limit) ==
    IF payload = FetchError THEN OhlcOnError(pair)
    ELSE IF payload.key # pair THEN OhlcEmpty(pair)
    ELSE IF \E i \in 1..Len(payload.rows) : ~RowParses(payload.rows[i])
         THEN OhlcOnError(pair)
    ELSE LET processed_data ==
                 ApplyLimit([i \in 1..Len(payload.rows) |->
                                ProcessCandle(payload.rows[i])], limit)
         IN [symbol |-> pair, data |-> processed_data,
             interval |-> interval, count |-> Len(processed_data)]

(***************************************************************************)
(* KrakenDataProvider.get_ticker                                           *)
(***************************************************************************)
\* keys of a provider ticker: c last trade, o open, h high, l low, v volume,
\* p vwap, t trade count, b bid, a ask (each the element the code indexes)
TickerKeys == {"c", "o", "h", "l", "v", "p", "t", "b", "a"}

\* a response with one pair key and its ticker
TickerResponse(k, t) == [kind |-> "resp", key |-> k, ticker |-> t]

\* a well-formed provider ticker
BaseTicker(o, c, b, a) ==
    [k \in TickerKeys |->
        CASE k = "o" -> Num(o) [] k = "c" -> Num(c)
          [] k = "b" -> Num(b) [] k = "a" -> Num(a)
          [] OTHER -> Num(1)]

\* the same ticker without key k, or with unparsable text under key k
DropKey(t, k) == [j \in (DOMAIN t) \ {k} |-> t[j]]
JunkKey(t, k) == [t EXCEPT ![k] = Junk]

TickerParses(ticker) ==
    \A k \in TickerKeys : k \in DOMAIN ticker /\ parses(ticker[k])

\* a float quotient, kept exact
Ratio(n, d) == [n |-> n, d |-> d]

\* line 117: if formatted_ticker['open'] > 0
DerivedGuard(open) == open > 0

\* the handler re-raising instead of returning None
TickerOnErrorReraise(pair) == [type |-> "Exception"]

\* lines 125-127: except Exception: log, return None
TickerOnError(pair) == None

get_ticker(payload, pair) ==
    IF payload = FetchError THEN TickerOnError(pair)
    ELSE IF payload.key # pair THEN None
    ELSE IF ~TickerParses(payload.ticker) THEN TickerOnError(pair)
    ELSE LET ticker == payload.ticker
             formatted_ticker ==
                 [symbol |-> pair,
                  price |-> float_(ticker["c"]),
                  open |-> float_(ticker["o"]),
                  high |-> float_(ticker["h"]),
                  low |-> float_(ticker["l"]),
                  volume |-> float_(ticker["v"]),
                  vwap |-> float_(ticker["p"]),
                  trades |-> float_(ticker["t"]),
                  bid |-> float_(ticker["b"]),
                  ask |-> float_(ticker["a"])]
             change == formatted_ticker.price - formatted_ticker.open
         IN IF DerivedGuard(formatted_ticker.open)
            THEN formatted_ticker @@
                 [change |-> change,
                  change_percent |-> Ratio(change * 100, formatted_ticker.open),
                  spread |-> formatted_ticker.ask - formatted_ticker.bid]
            ELSE formatted_ticker

(***************************************************************************)
(* KrakenDataProvider.get_order_book / get_recent_trades                   *)
(***************************************************************************)
\* a response with one pair key and its book {'asks': [...], 'bids': [...]};
\* a book row [price, volume, timestamp] is carried by price and volume
BookResponse(k, asks, bids) ==
    [kind |-> "resp", key |-> k, asks |-> asks, bids |-> bids]

LevelParses(row) == parses(row.price) /\ parses(row.volume)
FormatLevel(row) == [price |-> float_(row.price), volume |-> float_(row.volume)]

\* lines 221-223: except Exception: log, return None
BookOnError(pair) == None

get_order_book(payload, pair, depth) ==
    IF payload = FetchError THEN BookOnError(pair)
    ELSE IF payload.key # pair THEN None
    ELSE LET a == HeadSlice(payload.asks, depth)
             b == HeadSlice(payload.bids, depth)
         IN IF (\E i \in 1..Len(a) : ~LevelParses(a[i]))
               \/ (\E i \in 1..Len(b) : ~LevelParses(b[i]))
            THEN BookOnError(pair)
            ELSE [symbol |-> pair,
                  asks |-> [i \in 1..Len(a) |-> FormatLevel(a[i])],
                  bids |-> [i \in 1..Len(b) |-> FormatLevel(b[i])]]

\* a response with one pair key and its trades; a trade row
\* [price, volume, time, side, type, misc] is carried by price and side
TradesResponse(k, rows) == [kind |-> "resp", key |-> k, rows |-> rows]

TradeParses(row) == parses(row.price)
FormatTrade(row) == [price |-> float_(row.price), side |-> row.side]

\* lines 258-260: except Exception: log, return None
TradesOnError(pair) == None

get_recent_trades(payload, pair, limit) ==
    IF payload = FetchError THEN TradesOnError(pair)
    ELSE IF payload.key # pair THEN None
    ELSE LET t == HeadSlice(payload.rows, limit)
         IN IF \E i \in 1..Len(t) : ~TradeParses(t[i])
            THEN TradesOnError(pair)
            ELSE [symbol |-> pair,
                  trades |-> [i \in 1..Len(t) |-> FormatTrade(t[i])],
                  count |-> Len(t)]

(***************************************************************************)
(* KrakenDataProvider.calculate_technical_indicators                       *)
(*                                                                         *)
(* A cell of an indicator series is NaN, a ratio (rolling means and RSI,   *)
(* kept exact), or Finite: a float that is not NaN and whose magnitude is  *)
(* not represented (the exponential weights of ewm over 50 and more        *)
(* closes exceed the integer range).                                       *)
(***************************************************************************)
NaN == [nan |-> TRUE]
Finite == [nan |-> FALSE]

IndicatorFloor == 50

RECURSIVE SumRange(_, _, _)
SumRange(xs, a, b) == IF a > b THEN 0 ELSE xs[b] + SumRange(xs, a, b - 1)

\* a window that leaves out its oldest entry
rolling_mean_short(xs, w) ==
    [i \in 1..Len(xs) |->
        IF i < w THEN NaN ELSE Ratio(SumRange(xs, i - w + 2, i), w)]

\* Series.rolling(window=w).mean() on a series without NaN
rolling_mean(xs, w) ==
    [i \in 1..Len(xs) |->
        IF i < w THEN NaN ELSE Ratio(SumRange(xs, i - w + 1, i), w)]

\* pd.to_numeric on parsed closes: the float series of the column
to_float(xs) == [i \in 1..Len(xs) |-> Ratio(xs[i], 1)]

\* an entry whose value is carried exactly
Exact(cell) == "n" \in DOMAIN cell

\* Series.ewm(span=span).mean() on a series without NaN.  With the default
\* adjust=True entry t is the weighted mean
\*     sum_k (1-a)^k x[t-k] / sum_k (1-a)^k,   1 - a = (span-1)/(span+1),
\* so the first entry is x[1] and the second is
\* ((span+1) x[2] + (span-1) x[1]) / (2 span); the later entries are
\* finite values that are not carried exactly.
ewm_mean(xs, span) ==
    [i \in 1..Len(xs) |->
        IF i = 1 THEN xs[1]
        ELSE IF i = 2 /\ Exact(xs[1]) /\ Exact(xs[2])
             THEN Ratio((span + 1) * xs[2].n * xs[1].d
                          + (span - 1) * xs[1].n * xs[2].d,
                        2 * span * xs[1].d * xs[2].d)
             ELSE Finite]

\* a - b on two series without NaN
series_sub(a, b) ==
    [i \in 1..Len(a) |->
        IF Exact(a[i]) /\ Exact(b[i])
        THEN Ratio(a[i].n * b[i].d - b[i].n * a[i].d, a[i].d * b[i].d)
        ELSE Finite]

\* delta.where(delta > 0, 0) and -delta.where(delta < 0, 0) of delta =
\* close.diff(); delta is NaN at the first entry, which 'where' replaces by 0
gains(xs) == [i \in 1..Len(xs) |-> IF i = 1 THEN 0 ELSE Max(xs[i] - xs[i-1], 0)]
losses(xs) == [i \in 1..Len(xs) |-> IF i = 1 THEN 0 ELSE Max(xs[i-1] - xs[i], 0)]

\* a division guarded against a zero average loss: 100 whenever loss is 0
rsi_series_guarded(xs) ==
    [i \in 1..Len(xs) |->
        IF i < 14 THEN NaN
        ELSE LET g == SumRange(gains(xs), i - 13, i)
                 l == SumRange(losses(xs), i - 13, i)
             IN IF l = 0 THEN Ratio(100, 1) ELSE Ratio(100 * g, g + l)]

\* lines 296-299: rs = gain / loss over the 14-step rolling means, rsi =
\* 100 - 100 / (1 + rs); 0/0 is NaN, g/0 is +inf and gives exactly 100
rsi_series(xs) ==
    [i \in 1..Len(xs) |->
        IF i < 14 THEN NaN
        ELSE LET g == SumRange(gains(xs), i - 13, i)
                 l == SumRange(losses(xs), i - 13, i)
             IN IF l = 0 THEN (IF g = 0 THEN NaN ELSE Ratio(100, 1))
                ELSE Ratio(100 * g, g + l)]

\* line 265: the bundle returned below the floor
EmptyBundle ==
    [sma_20 |-> <<>>, sma_50 |-> <<>>, ema_12 |-> <<>>, ema_26 |-> <<>>,
     macd |-> <<>>, rsi |-> <<>>]

calculate_technical_indicators(data) ==
    IF data = <<>> \/ Len(data) < IndicatorFloor THEN EmptyBundle
    ELSE LET close == [i \in 1..Len(data) |-> data[i].close]
             ema_12 == ewm_mean(to_float(close), 12)
             ema_26 == ewm_mean(to_float(close), 26)
             macd_line == series_sub(ema_12, ema_26)
             signal_line == ewm_mean(macd_line, 9)
         IN [sma_20 |-> rolling_mean(close, 20),
             sma_50 |-> rolling_mean(close, 50),
             ema_12 |-> ema_12,
             ema_26 |-> ema_26,
             macd |-> [macd |-> macd_line,
                       signal |-> signal_line,
                       histogram |-> series_sub(macd_line, signal_line)],
             rsi |-> rsi_series(close)]

(***************************************************************************)
(* KrakenDataProvider.get_market_summary                                   *)
(***************************************************************************)
\* an exception escaping a sub-fetch (none of them lets one escape)
Raised == [type |-> "Exception"]

get_market_summary(tp, hp, dp, bp, rp, pair) ==
    LET ticker == get_ticker(tp, pair)
        ohlc_1h == get_ohlc_data(hp, pair, 60, <<24>>)
        ohlc_1d == get_ohlc_data(dp, pair, 1440, <<30>>)
        order_book == get_order_book(bp, pair, 5)
        recent_trades == get_recent_trades(rp, pair, 20)
    IN IF ticker = Raised \/ ohlc_1h = Raised \/ ohlc_1d = Raised
          \/ order_book = Raised \/ recent_trades = Raised
       THEN [symbol |-> pair, error |-> "Exception"]
       ELSE [symbol |-> pair,
             ticker |-> ticker,
             ohlc_1h |-> ohlc_1h,
             ohlc_1d |-> ohlc_1d,
             order_book |-> order_book,
             recent_trades |-> recent_trades,
             technical_indicators |->
                 IF ohlc_1d.data # <<>>
                 THEN calculate_technical_indicators(ohlc_1d.data)
                 ELSE EmptyDict]

(***************************************************************************)
(* python-service/stock_service.py: the cache layer                        *)
(*                                                                         *)
(* redis_client is "none" (the module-level client is None), "down" (every *)
(* get and setex raises) or "up".  store is the content of the redis       *)
(* server: a function from keys to [value, ttl].  The server is threaded:   *)
(* inflight is the bag of requests that missed the cache and wait for the  *)
(* provider, while other requests arrive and finish; req, resp and trace   *)
(* are those of the request answered last.                                 *)
(***************************************************************************)
QuoteTTL == 60
InfoTTL == 3600

\* json.dumps / json.loads: the payload travels as text
json_dumps(data) == [json |-> data]
json_loads(text) == text.json

cache_key(symbol, period, interval) ==
    "stock_data:" \o symbol \o ":" \o period \o ":" \o interval

\* the handler letting the redis error escape
CacheReadOnErrorReraise == Raised

\* lines 36-38: except Exception: log, return None
CacheReadOnError == None

get_cached_data(client, st, key) ==
    IF client = "none" THEN None
    ELSE IF client = "down" THEN CacheReadOnError
    ELSE IF key \in DOMAIN st THEN json_loads(st[key].value)
    ELSE None

\* redis setex: the entry under key is replaced whole
set_cached_data(client, st, key, data, ttl) ==
    IF client # "up" THEN st
    ELSE [k \in (DOMAIN st) \cup {key} |->
            IF k = key THEN [value |-> json_dumps(data), ttl |-> ttl]
            ELSE st[k]]

\* every history write gets the long TTL
history_ttl_long(interval) == 300

\* line 133: 60 if interval in ['1m', '2m', '5m'] else 300
history_ttl(interval) == IF interval \in {"1m", "2m", "5m"} THEN 60 ELSE 300

(***************************************************************************)
(* python-service/stock_service.py: the endpoints                          *)
(***************************************************************************)
Symbols == {"AAPL", "aapl"}
upper(symbol) == IF symbol = "aapl" THEN "AAPL" ELSE symbol

\* the answer of a yfinance call: it raised, or it returned a value
YfError == [raised |-> TRUE]
Info(dict) == [raised |-> FALSE, dict |-> dict]
Frame(rows) == [raised |-> FALSE, rows |-> rows]

\* ticker.info: a dict that may lack any key
InfoDicts ==
    {[k \in {"sector"} |-> "Technology"],
     [k \in {"longName", "marketCap"} |->
         IF k = "longName" THEN "Apple Inc." ELSE 3000]}

info_get(info, key, default) == IF key \in DOMAIN info THEN info[key] ELSE default

\* a row of ticker.history(): index time and the columns read; Volume may
\* be the not-a-number marker
Vol(v) == [nan |-> FALSE, v |-> v]
NaNVol == [nan |-> TRUE, v |-> 0]
HistRow(t, o, c, v) == [time |-> t, Open |-> o, Close |-> c, Volume |-> v]

Frames ==
    {<<>>,
     <<HistRow(1, 1, 2, Vol(5))>>,
     <<HistRow(1, 1, 2, Vol(5)), HistRow(2, 2, 1, NaNVol)>>}

Ok(body) == [status |-> 200, body |-> body]
NotFound == [status |-> 404, body |-> [error |-> "No data found for symbol"]]
\* line 221: the 404 of get_technical_indicators
TechnicalNotFound == [status |-> 404, body |-> [error |-> "No data found"]]
ServerError == [status |-> 500, body |-> [error |-> "Exception"]]

\* get_quote lines 62-82: the response computed from the provider
quote_response(symbol, info, hist) ==
    IF info = YfError \/ hist = YfError THEN ServerError
    ELSE IF hist.rows = <<>> THEN NotFound
    ELSE LET current_data == hist.rows[Len(hist.rows)]
         IN IF current_data.Volume.nan THEN ServerError
            ELSE Ok([symbol |-> upper(symbol),
                     price |-> current_data.Close,
                     open |-> current_data.Open,
                     volume |-> current_data.Volume.v,
                     change |-> current_data.Close - current_data.Open,
                     changePercent |->
                         Ratio((current_data.Close - current_data.Open) * 100,
                               current_data.Open),
                     marketCap |-> info_get(info.dict, "marketCap", 0),
                     companyName |-> info_get(info.dict, "longName", symbol)])

\* get_history lines 106-130
history_response(symbol, period, interval, hist) ==
    IF hist = YfError THEN ServerError
    ELSE IF hist.rows = <<>> THEN NotFound
    ELSE Ok([symbol |-> upper(symbol),
             data |-> [i \in 1..Len(hist.rows) |->
                          [time |-> hist.rows[i].time,
                           open |-> hist.rows[i].Open,
                           close |-> hist.rows[i].Close,
                           volume |-> IF hist.rows[i].Volume.nan THEN 0
                                      ELSE hist.rows[i].Volume.v]],
             period |-> period,
             interval |-> interval])

\* get_stock_info lines 150-168
info_response(symbol, info) ==
    IF info = YfError THEN ServerError
    ELSE Ok([symbol |-> upper(symbol),
             companyName |-> info_get(info.dict, "longName", ""),
             marketCap |-> info_get(info.dict, "marketCap", 0)])

\* float(x) if not pd.isna(x) else None
Masked(cell) == IF cell = NaN THEN None ELSE cell

\* get_technical_indicators lines 217-260
technical_response(symbol, hist) ==
    IF hist = YfError THEN ServerError
    ELSE IF hist.rows = <<>> THEN TechnicalNotFound
    ELSE LET close_prices == [i \in 1..Len(hist.rows) |-> hist.rows[i].Close]
             sma_20 == rolling_mean(close_prices, 20)
             sma_50 == rolling_mean(close_prices, 50)
             ema_12 == ewm_mean(to_float(close_prices), 12)
             ema_26 == ewm_mean(to_float(close_prices), 26)
             macd_line == series_sub(ema_12, ema_26)
             signal_line == ewm_mean(macd_line, 9)
             rsi == rsi_series(close_prices)
         IN Ok([symbol |-> upper(symbol),
                data |-> [i \in 1..Len(hist.rows) |->
                             [time |-> hist.rows[i].time,
                              close |-> hist.rows[i].Close,
                              sma20 |-> Masked(sma_20[i]),
                              sma50 |-> Masked(sma_50[i]),
                              macd |-> Masked(macd_line[i]),
                              signal |-> Masked(signal_line[i]),
                              rsi |-> Masked(rsi[i])]]])

\* events of one request, in order: calls of the cache layer with their key
\* and TTL, and calls of the provider (key names what is fetched)
CacheGet(key) == [ev |-> "get_cached_data", key |-> key, ttl |-> 0]
CacheSet(key, ttl) == [ev |-> "set_cached_data", key |-> key, ttl |-> ttl]
Provider(what) == [ev |-> "provider", key |-> what, ttl |-> 0]

\* the provider calls made until the response is known
QuoteFetches(info, hist) ==
    IF info = YfError THEN <<Provider("info")>>
    ELSE <<Provider("info"), Provider("history")>>

\* lines 58-60, 102-104, 146-148: the lookup at the start of get_quote,
\* get_history and get_stock_info; a hit answers at once, and an exception
\* escaping the cache layer would reach the endpoint's handler
Lookup(key) ==
    LET cached == get_cached_data(redis_client, store, key)
    IN IF cached = Raised THEN [done |-> TRUE, resp |-> ServerError]
       ELSE IF cached # None THEN [done |-> TRUE, resp |-> Ok(cached)]
       ELSE [done |-> FALSE, resp |-> None]

\* a fetch stored whatever its status
FetchAndStoreAll(key, fresh, fetches, ttl) ==
    [resp |-> fresh,
     store |-> set_cached_data(redis_client, store, key, fresh.body, ttl),
     trace |-> <<CacheGet(key)>> \o fetches \o <<CacheSet(key, ttl)>>]

\* the rest of a request that missed: the response is computed from the
\* provider's answer and stored, in the server as it is by then, when it is
\* a success.  The provider call reads nothing of the service, so the fetch
\* and the write that follows it are one step.
FetchAndStore(key, fresh, fetches, ttl) ==
    IF fresh.status = 200
    THEN [resp |-> fresh,
          store |-> set_cached_data(redis_client, store, key, fresh.body, ttl),
          trace |-> <<CacheGet(key)>> \o fetches \o <<CacheSet(key, ttl)>>]
    ELSE [resp |-> fresh, store |-> store,
          trace |-> <<CacheGet(key)>> \o fetches]

Periods == {"1d", "1y"}
HistIntervals == {"1m", "2m", "5m", "15m", "1d"}
Infos == {YfError} \cup {Info(d) : d \in InfoDicts}
Hists == {YfError} \cup {Frame(rows) : rows \in Frames}

\* requests arrived and not yet answered
Arrived == nreq + BagCardinality(inflight)

\* get_quote lines 52-60: the request arrives and the cache is read; on a
\* miss the request waits in the provider call
GetQuote ==
    \E symbol \in Symbols :
        LET q == [op |-> "quote", symbol |-> symbol]
            look == Lookup("quote:" \o symbol)
        IN /\ Arrived < MaxRequests
           /\ IF look.done
              THEN /\ nreq' = nreq + 1
                   /\ req' = q
                   /\ resp' = look.resp
                   /\ trace' = <<CacheGet("quote:" \o symbol)>>
                   /\ inflight' = inflight
              ELSE /\ inflight' = inflight (+) SetToBag({q})
                   /\ UNCHANGED <<req, resp, trace, nreq>>
           /\ UNCHANGED <<redis_client, store, kvars>>

\* get_quote lines 62-90: the provider answers a waiting request
GetQuoteFetch ==
    \E q \in BagToSet(inflight), info \in Infos, hist \in Hists :
        /\ q.op = "quote"
        /\ LET out == FetchAndStore("quote:" \o q.symbol,
                                    quote_response(q.symbol, info, hist),
                                    QuoteFetches(info, hist), QuoteTTL)
           IN /\ nreq' = nreq + 1
              /\ req' = [op |-> "quote", symbol |-> q.symbol, info |-> info,
                         hist |-> hist]
              /\ resp' = out.resp
              /\ store' = out.store
              /\ trace' = out.trace
              /\ inflight' = inflight (-) SetToBag({q})
              /\ UNCHANGED <<redis_client, kvars>>

\* get_history lines 92-104
GetHistory ==
    \E symbol \in Symbols, period \in Periods, interval \in HistIntervals :
        LET q == [op |-> "history", symbol |-> symbol, period |-> period,
                  interval |-> interval]
            look == Lookup(cache_key(symbol, period, interval))
        IN /\ Arrived < MaxRequests
           /\ IF look.done
              THEN /\ nreq' = nreq + 1
                   /\ req' = q
                   /\ resp' = look.resp
                   /\ trace' = <<CacheGet(cache_key(symbol, period, interval))>>
                   /\ inflight' = inflight
              ELSE /\ inflight' = inflight (+) SetToBag({q})
                   /\ UNCHANGED <<req, resp, trace, nreq>>
           /\ UNCHANGED <<redis_client, store, kvars>>

\* get_history lines 106-139
GetHistoryFetch ==
    \E q \in BagToSet(inflight), hist \in Hists :
        /\ q.op = "history"
        /\ LET out == FetchAndStore(cache_key(q.symbol, q.period, q.interval),
                                    history_response(q.symbol, q.period,
                                                     q.interval, hist),
                                    <<Provider("history")>>,
                                    history_ttl(q.interval))
           IN /\ nreq' = nreq + 1
              /\ req' = [op |-> "history", symbol |-> q.symbol,
                         period |-> q.period, interval |-> q.interval,
                         hist |-> hist]
              /\ resp' = out.resp
              /\ store' = out.store
              /\ trace' = out.trace
              /\ inflight' = inflight (-) SetToBag({q})
              /\ UNCHANGED <<redis_client, kvars>>

\* get_stock_info lines 141-148
GetStockInfo ==
    \E symbol \in Symbols :
        LET q == [op |-> "info", symbol |-> symbol]
            look == Lookup("info:" \o symbol)
        IN /\ Arrived < MaxRequests
           /\ IF look.done
              THEN /\ nreq' = nreq + 1
                   /\ req' = q
                   /\ resp' = look.resp
                   /\ trace' = <<CacheGet("info:" \o symbol)>>
                   /\ inflight' = inflight
              ELSE /\ inflight' = inflight (+) SetToBag({q})
                   /\ UNCHANGED <<req, resp, trace, nreq>>
           /\ UNCHANGED <<redis_client, store, kvars>>

\* get_stock_info lines 150-176
GetStockInfoFetch ==
    \E q \in BagToSet(inflight), info \in Infos :
        /\ q.op = "info"
        /\ LET out == FetchAndStore("info:" \o q.symbol,
                                    info_response(q.symbol, info),
                                    <<Provider("info")>>, InfoTTL)
           IN /\ nreq' = nreq + 1
              /\ req' = [op |-> "info", symbol |-> q.symbol, info |-> info]
              /\ resp' = out.resp
              /\ store' = out.store
              /\ trace' = out.trace
              /\ inflight' = inflight (-) SetToBag({q})
              /\ UNCHANGED <<redis_client, kvars>>

\* get_technical_indicators lines 211-264: no cache, nothing shared with
\* another request
GetTechnicalIndicators ==
    \E symbol \in Symbols, period \in Periods, hist \in Hists :
        /\ Arrived < MaxRequests
        /\ nreq' = nreq + 1
        /\ req' = [op |-> "technical", symbol |-> symbol, period |-> period,
                   hist |-> hist]
        /\ resp' = technical_response(symbol, hist)
        /\ trace' = <<Provider("history")>>
        /\ UNCHANGED <<redis_client, store, inflight, kvars>>

\* the TTL of an entry elapses
Expire ==
    \E key \in DOMAIN store :
        /\ store' = [k \in (DOMAIN store) \ {key} |-> store[k]]
        /\ UNCHANGED <<redis_client, req, resp, trace, nreq, inflight, kvars>>

(***************************************************************************)
(* Inputs                                                                  *)
(***************************************************************************)
SeqsUpTo(S, n) == UNION {[1..m -> S] : m \in 0..n}

OhlcPayloads ==
    {FetchError} \cup
    {Response(k, rows) : k \in Pairs, rows \in SeqsUpTo(RawCandles, MaxCandles)}

Limits == {<<>>} \cup {<<k>> : k \in -1..(MaxCandles + 1)}

Intervals == {60, 7}

TickerDicts ==
    LET base == {BaseTicker(o, c, b, a) :
                    o \in -1..MaxClose, c \in 1..MaxClose,
                    b \in 1..MaxClose, a \in 1..MaxClose}
    IN base \cup {DropKey(t, k) : t \in base, k \in TickerKeys}
            \cup {JunkKey(t, k) : t \in base, k \in TickerKeys}

TickerPayloads ==
    {FetchError} \cup {TickerResponse(k, t) : k \in Pairs, t \in TickerDicts}

\* close series of n bars: flat, rising, falling or alternating
Shapes == {"flat", "up", "down", "zigzag"}
CloseAt(shape, i) ==
    CASE shape = "flat" -> 100
      [] shape = "up" -> 100 + i
      [] shape = "down" -> 200 - i
      [] OTHER -> 100 + (i % 2)

Bars(n, shape) == [i \in 1..n |-> [time |-> i, close |-> CloseAt(shape, i)]]
RawBars(n, shape) == [i \in 1..n |-> [time |-> i, close |-> Num(CloseAt(shape, i))]]

SummaryRows ==
    {<<>>, RawBars(2, "up"), <<[time |-> 1, close |-> Junk]>>,
     RawBars(MaxBars, "up")}
SummaryOhlcPayloads ==
    {FetchError} \cup {Response(k, rows) : k \in Pairs, rows \in SummaryRows}

SummaryTickerPayloads ==
    {FetchError} \cup
    {TickerResponse(k, t) :
        k \in Pairs,
        t \in {BaseTicker(1, 2, 1, 2), DropKey(BaseTicker(1, 2, 1, 2), "o")}}

Level(p) == [price |-> Num(p), volume |-> Num(1)]
SummaryBookPayloads ==
    {FetchError} \cup
    {BookResponse(k, a, b) :
        k \in Pairs,
        a \in {[i \in 1..6 |-> Level(10 + i)], <<[price |-> Junk, volume |-> Num(1)]>>},
        b \in {[i \in 1..6 |-> Level(10 - i)]}}

SummaryTradesPayloads ==
    {FetchError} \cup
    {TradesResponse(k, rows) :
        k \in Pairs,
        rows \in {<<[price |-> Num(1), side |-> "b"], [price |-> Num(2), side |-> "s"]>>,
                  <<[price |-> Junk, side |-> "b"]>>}}

BookLevels == [price : RawTexts, volume : {Num(1)}]

\* one side of the book in every shape, against a few shapes of the other
BookSides == SeqsUpTo(BookLevels, MaxLevels)
FewSides ==
    {<<>>, <<Level(1), Level(2)>>, <<[price |-> Junk, volume |-> Num(1)]>>}

BookPayloads ==
    {FetchError} \cup
    {BookResponse(k, a, b) : k \in Pairs, a \in BookSides, b \in FewSides} \cup
    {BookResponse(k, a, b) : k \in Pairs, a \in FewSides, b \in BookSides}

Depths == -1..(MaxLevels + 1)

(***************************************************************************)
(* Calls on the provider                                                   *)
(***************************************************************************)
\* a call that has not returned yet
Pending == [type |-> "pending"]

OhlcCalls ==
    {[op |-> "get_ohlc_data", payload |-> payload, pair |-> pair,
      interval |-> interval, limit |-> limit] :
        payload \in OhlcPayloads, pair \in Pairs, interval \in Intervals,
        limit \in Limits}

TickerCalls ==
    {[op |-> "get_ticker", payload |-> payload, pair |-> pair] :
        payload \in TickerPayloads, pair \in Pairs}

IndicatorCalls ==
    {[op |-> "calculate_technical_indicators", data |-> Bars(n, shape)] :
        n \in 0..MaxBars, shape \in Shapes}

OrderBookCalls ==
    {[op |-> "get_order_book", payload |-> payload, pair |-> pair,
      depth |-> depth] :
        payload \in BookPayloads, pair \in Pairs, depth \in Depths}

SummaryCalls ==
    {[op |-> "get_market_summary", pair |-> "XXBTZUSD",
      tp |-> tp, hp |-> hp, dp |-> dp, bp |-> bp, rp |-> rp] :
        tp \in SummaryTickerPayloads, hp \in SummaryOhlcPayloads,
        dp \in SummaryOhlcPayloads, bp \in SummaryBookPayloads,
        rp \in SummaryTradesPayloads}

\* one call on a provider object, with its arguments and the payload the
\* exchange will answer with
KInit ==
    /\ \/ kcall \in OhlcCalls
       \/ kcall \in TickerCalls
       \/ kcall \in IndicatorCalls
       \/ kcall \in SummaryCalls
       \/ kcall \in OrderBookCalls
    /\ kret = Pending

GetOhlcData ==
    /\ kcall.op = "get_ohlc_data"
    /\ kret = Pending
    /\ kret' = get_ohlc_data(kcall.payload, kcall.pair, kcall.interval, kcall.limit)
    /\ UNCHANGED <<kcall, svars>>

GetTicker ==
    /\ kcall.op = "get_ticker"
    /\ kret = Pending
    /\ kret' = get_ticker(kcall.payload, kcall.pair)
    /\ UNCHANGED <<kcall, svars>>

CalculateTechnicalIndicators ==
    /\ kcall.op = "calculate_technical_indicators"
    /\ kret = Pending
    /\ kret' = calculate_technical_indicators(kcall.data)
    /\ UNCHANGED <<kcall, svars>>

GetOrderBook ==
    /\ kcall.op = "get_order_book"
    /\ kret = Pending
    /\ kret' = get_order_book(kcall.payload, kcall.pair, kcall.depth)
    /\ UNCHANGED <<kcall, svars>>

GetMarketSummary ==
    /\ kcall.op = "get_market_summary"
    /\ kret = Pending
    /\ kret' = get_market_summary(kcall.tp, kcall.hp, kcall.dp, kcall.bp,
                                  kcall.rp, kcall.pair)
    /\ UNCHANGED <<kcall, svars>>

\* the service before its first request, with an empty redis server
SInit ==
    /\ redis_client \in {"none", "down", "up"}
    /\ store = [k \in {} |-> None]
    /\ req = None
    /\ resp = None
    /\ trace = <<>>
    /\ nreq = 0
    /\ inflight = EmptyBag

\* the provider object alone: the service is not started
Init ==
    /\ KInit
    /\ redis_client = "none"
    /\ store = [k \in {} |-> None]
    /\ req = None
    /\ resp = None
    /\ trace = <<>>
    /\ nreq = 0
    /\ inflight = EmptyBag

Next ==
    \/ GetOhlcData
    \/ GetTicker
    \/ CalculateTechnicalIndicators
    \/ GetMarketSummary
    \/ GetOrderBook

Spec == Init /\ [][Next]_vars

\* the equity service alone
InitStock ==
    /\ SInit
    /\ kcall = [op |-> "none"]
    /\ kret = Pending

NextStock ==
    \/ GetQuote
    \/ GetQuoteFetch
    \/ GetHistory
    \/ GetHistoryFetch
    \/ GetStockInfo
    \/ GetStockInfoFetch
    \/ GetTechnicalIndicators
    \/ Expire

SpecStock == InitStock /\ [][NextStock]_vars

(***************************************************************************)
(* Properties of the provider calls                                        *)
(***************************************************************************)
Returned(op) == kcall.op = op /\ kret # Pending

\* the last k entries of s
LastK(s, k) == SubSeq(s, Len(s) - k + 1, Len(s))

UnlimitedData ==
    get_ohlc_data(kcall.payload, kcall.pair, kcall.interval, <<>>).data

\* C1: for every limit k with 0 <= k <= number of candles, the data returned
\* by get_ohlc_data with limit k is the last k entries of the data returned
\* for the same payload without a limit.
C1_TruncationLaw ==
    (Returned("get_ohlc_data") /\ kcall.limit # <<>>
       /\ kcall.limit[1] >= 0 /\ kcall.limit[1] <= Len(UnlimitedData))
    => kret.data = LastK(UnlimitedData, kcall.limit[1])

\* C2: the data returned by get_ohlc_data is sorted ascending by time,
\* whatever the order of the provider rows and whatever the limit.
C2_SortedAscending ==
    Returned("get_ohlc_data")
    => \A i \in 1..(Len(kret.data) - 1) :
           kret.data[i].time <= kret.data[i + 1].time

\* C2 witness: provider rows in descending order, a limit given, and at
\* least two candles returned
C2_Witness ==
    /\ Returned("get_ohlc_data")
    /\ kcall.payload # FetchError
    /\ Len(kcall.payload.rows) >= 2
    /\ kcall.payload.rows[1].time > kcall.payload.rows[2].time
    /\ kcall.limit # <<>>
    /\ Len(kret.data) >= 2

\* C3: in the data returned by get_ohlc_data, time is strictly increasing:
\* rows with the same timestamp collapse to one candle.
C3_StrictlyIncreasing ==
    Returned("get_ohlc_data")
    => \A i \in 1..(Len(kret.data) - 1) :
           kret.data[i].time < kret.data[i + 1].time

SummaryFields ==
    {"ticker", "ohlc_1h", "ohlc_1d", "order_book", "recent_trades",
     "technical_indicators"}

\* the payload makes the sub-fetch fail: the fetch raises, the pair is
\* missing, or the rows it reads do not parse
TickerFails(tp, pair) ==
    tp = FetchError \/ tp.key # pair \/ ~TickerParses(tp.ticker)
OhlcFails(hp, pair) ==
    hp = FetchError \/ hp.key # pair
    \/ (\E i \in 1..Len(hp.rows) : ~RowParses(hp.rows[i]))
BookFails(bp, pair) ==
    bp = FetchError \/ bp.key # pair
    \/ (\E i \in 1..Len(bp.asks) : (i <= 5 /\ ~LevelParses(bp.asks[i])))
    \/ (\E i \in 1..Len(bp.bids) : (i <= 5 /\ ~LevelParses(bp.bids[i])))
TradesFails(rp, pair) ==
    rp = FetchError \/ rp.key # pair
    \/ (\E i \in 1..Len(rp.rows) : (i <= 20 /\ ~TradeParses(rp.rows[i])))

\* C4: get_market_summary isolates sub-fetch failures: the result always has
\* the six fields, a failing sub-fetch leaves its field in the empty shape,
\* and a succeeding one has the value it has when fetched on its own.
C4_SummaryIsolation ==
    Returned("get_market_summary")
    => /\ SummaryFields \subseteq DOMAIN kret
       /\ TickerFails(kcall.tp, kcall.pair) => kret.ticker = None
       /\ OhlcFails(kcall.hp, kcall.pair) => kret.ohlc_1h.data = <<>>
       /\ OhlcFails(kcall.dp, kcall.pair) => kret.ohlc_1d.data = <<>>
       /\ BookFails(kcall.bp, kcall.pair) => kret.order_book = None
       /\ TradesFails(kcall.rp, kcall.pair) => kret.recent_trades = None
       /\ \A tp \in SummaryTickerPayloads, hp \in SummaryOhlcPayloads :
             LET alone == get_market_summary(tp, hp, kcall.dp, kcall.bp,
                                             kcall.rp, kcall.pair)
             IN (SummaryFields \subseteq DOMAIN alone)
                => /\ kret.ohlc_1d = alone.ohlc_1d
                   /\ kret.order_book = alone.order_book
                   /\ kret.recent_trades = alone.recent_trades
       /\ \A dp \in SummaryOhlcPayloads, bp \in SummaryBookPayloads,
             rp \in SummaryTradesPayloads :
             LET alone == get_market_summary(kcall.tp, kcall.hp, dp, bp, rp,
                                             kcall.pair)
             IN (SummaryFields \subseteq DOMAIN alone)
                => /\ kret.ticker = alone.ticker
                   /\ kret.ohlc_1h = alone.ohlc_1h

\* C4 witness: the ticker fetch raised and the order book did not parse,
\* while the hourly candles and the trades came back
C4_Witness ==
    /\ Returned("get_market_summary")
    /\ kcall.tp = FetchError
    /\ kcall.bp # FetchError /\ BookFails(kcall.bp, kcall.pair)
    /\ SummaryFields \subseteq DOMAIN kret
    /\ kret.ohlc_1h.data # <<>>
    /\ kret.recent_trades # None

MacdParts == {"macd", "signal", "histogram"}

\* C8: every series of the bundle returned by
\* calculate_technical_indicators (sma_20, sma_50, ema_12, ema_26, rsi and
\* the macd line, signal and histogram) has the length of the input, also
\* for fewer than 50 candles.
C8_Alignment ==
    Returned("calculate_technical_indicators")
    => /\ \A f \in {"sma_20", "sma_50", "ema_12", "ema_26", "rsi"} :
             Len(kret[f]) = Len(kcall.data)
       /\ DOMAIN kret.macd = MacdParts
       /\ \A f \in MacdParts : Len(kret.macd[f]) = Len(kcall.data)

NonDerivedFields ==
    {"symbol", "price", "high", "low", "volume", "vwap", "trades", "bid", "ask"}
DerivedFields == {"change", "change_percent", "spread"}

\* the payload has the requested pair and every field but 'o' is there and
\* parses; 'o' is missing or parses
WellFormedButOpen(payload, pair) ==
    /\ payload # FetchError
    /\ payload.key = pair
    /\ \A k \in TickerKeys \ {"o"} :
          k \in DOMAIN payload.ticker /\ parses(payload.ticker[k])
    /\ "o" \in DOMAIN payload.ticker => parses(payload.ticker["o"])

\* C9: for a ticker payload that has the requested pair, get_ticker returns
\* a snapshot with all non-derived fields, and change, change_percent and
\* spread are present exactly when open is present and greater than 0; a
\* payload without open still yields a snapshot.
C9_DerivedFields ==
    (Returned("get_ticker") /\ WellFormedButOpen(kcall.payload, kcall.pair))
    => /\ kret # None
       /\ NonDerivedFields \subseteq DOMAIN kret
       /\ \A f \in DerivedFields :
             f \in DOMAIN kret
             <=> ("o" \in DOMAIN kcall.payload.ticker
                  /\ float_(kcall.payload.ticker["o"]) > 0)

\* C10: a payload without the requested pair yields None (get_ticker) or
\* the empty result (get_ohlc_data), and a failure of the provider fetch
\* yields something else.
C10_AbsentIsNotFailure ==
    /\ Returned("get_ticker")
       => /\ (kcall.payload # FetchError /\ kcall.payload.key # kcall.pair)
             => kret = None
          /\ kcall.payload = FetchError => kret # None
    /\ Returned("get_ohlc_data")
       => /\ (kcall.payload # FetchError /\ kcall.payload.key # kcall.pair)
             => kret = OhlcEmpty(kcall.pair)
          /\ kcall.payload = FetchError => kret # OhlcEmpty(kcall.pair)

(***************************************************************************)
(* Properties of the equity service                                        *)
(***************************************************************************)
\* the response computed from the provider alone, without any cache
FreshResponse(r) ==
    CASE r.op = "quote" -> quote_response(r.symbol, r.info, r.hist)
      [] r.op = "history" ->
            history_response(r.symbol, r.period, r.interval, r.hist)
      [] r.op = "info" -> info_response(r.symbol, r.info)
      [] OTHER -> technical_response(r.symbol, r.hist)

HasProviderCall(t) == \E i \in 1..Len(t) : t[i].ev = "provider"

\* C5: when the cache store is absent or raises on every get and set, every
\* quote, history and info request asks the provider and returns the
\* response computed fresh from its answer, and nothing is stored.
C5_CacheFailuresNeverSurface ==
    (redis_client # "up" /\ nreq > 0)
    => /\ HasProviderCall(trace)
       /\ resp = FreshResponse(req)
       /\ DOMAIN store = {}

\* C5 witness: the store raises on every call and a second request, a
\* history request, has been answered with data
C5_Witness ==
    /\ redis_client = "down"
    /\ nreq = 2
    /\ req.op = "history"
    /\ resp.status = 200

CachedOps == {"quote", "history", "info"}

KeyOf(r) ==
    CASE r.op = "quote" -> "quote:" \o r.symbol
      [] r.op = "info" -> "info:" \o r.symbol
      [] OTHER -> cache_key(r.symbol, r.period, r.interval)

HasCacheCall(t) == \E i \in 1..Len(t) : t[i].ev # "provider"

\* C6: every operation that fetches from a provider reads the cache before
\* the provider call and, on success, writes the cache after.
C6_EveryFetchBracketed ==
    (nreq > 0 /\ HasProviderCall(trace))
    => /\ trace[1].ev = "get_cached_data"
       /\ resp.status = 200 => trace[Len(trace)].ev = "set_cached_data"

\* What the quote, history and info requests do: the cache is read under
\* the query's key before any provider call, a hit returns the cached
\* payload with no provider call and no write, a request waits for the
\* provider only after a lookup that found no entry, and a successful fetch
\* ends with a write of the response under that key.  The
\* technical-indicators request makes no cache call.
CachedOpsBracketed ==
    [][/\ nreq' = nreq + 1
          => /\ req'.op \in CachedOps
                => LET key == KeyOf(req')
                   IN /\ trace'[1] = CacheGet(key)
                      /\ \A i \in 2..Len(trace') :
                            trace'[i].ev = "get_cached_data" => FALSE
                      /\ IF ~HasProviderCall(trace')
                         THEN /\ redis_client = "up"
                              /\ key \in DOMAIN store
                              /\ resp' = Ok(json_loads(store[key].value))
                              /\ trace' = <<CacheGet(key)>>
                              /\ store' = store
                         ELSE resp'.status = 200
                              => /\ trace'[Len(trace')].ev = "set_cached_data"
                                 /\ trace'[Len(trace')].key = key
                                 /\ redis_client = "up"
                                    => /\ key \in DOMAIN store'
                                       /\ store'[key].value
                                            = json_dumps(resp'.body)
             /\ req'.op \notin CachedOps
                => ~HasCacheCall(trace') /\ store' = store
       /\ \A q \in BagToSet(inflight') :
             CopiesIn(q, inflight') > CopiesIn(q, inflight)
             => ~(redis_client = "up" /\ KeyOf(q) \in DOMAIN store)]_vars

\* a history request answered from the cache alone
CachedHit ==
    /\ nreq = 2
    /\ req.op = "history"
    /\ resp.status = 200
    /\ trace = <<CacheGet(KeyOf(req))>>

\* the resolution of a history interval in minutes
Minutes(interval) ==
    CASE interval = "1m" -> 1 [] interval = "2m" -> 2 [] interval = "5m" -> 5
      [] interval = "15m" -> 15 [] interval = "1d" -> 1440
      [] OTHER -> 10080

\* the TTL classes: TRUE when ttl is right for the request
TtlClass(r, ttl) ==
    CASE r.op = "quote" -> ttl = 60
      [] r.op = "info" -> ttl = 3600
      [] r.op = "history" ->
            /\ Minutes(r.interval) <= 5 => ttl = 60
            /\ Minutes(r.interval) >= 1440 => ttl = 300
      [] OTHER -> FALSE

C11_MalformedIsError ==
    (Returned("get_ohlc_data") /\ kcall.payload # FetchError
       /\ kcall.payload.key = kcall.pair
       /\ \E i \in 1..Len(kcall.payload.rows) : ~RowParses(kcall.payload.rows[i]))
    => "data" \notin DOMAIN kret

\* the first min(d, Len(rows)) rows of the provider list, formatted, in the
\* provider's order
IsBookPrefix(out, rows, d) ==
    /\ Len(out) = Min(d, Len(rows))
    /\ \A i \in 1..Len(out) :
          /\ out[i].price = rows[i].price.val
          /\ out[i].volume = rows[i].volume.val

\* C12: for a payload with n asks and m bids of the requested pair and a
\* depth d >= 0 whose first d rows parse, get_order_book returns min(d, n)
\* asks and min(d, m) bids, the first entries of the provider's lists in the
\* provider's order.
C12_OrderBookDepth ==
    ( /\ Returned("get_order_book")
      /\ kcall.payload # FetchError
      /\ kcall.payload.key = kcall.pair
      /\ kcall.depth >= 0
      /\ \A i \in 1..Len(kcall.payload.asks) :
            i <= kcall.depth => LevelParses(kcall.payload.asks[i])
      /\ \A i \in 1..Len(kcall.payload.bids) :
            i <= kcall.depth => LevelParses(kcall.payload.bids[i]) )
    => /\ kret # None
       /\ IsBookPrefix(kret.asks, kcall.payload.asks, kcall.depth)
       /\ IsBookPrefix(kret.bids, kcall.payload.bids, kcall.depth)

\* C12 witness: three asks with different prices, depth 2, two returned
C12_Witness ==
    /\ Returned("get_order_book")
    /\ kcall.depth = 2
    /\ kret # None
    /\ Len(kcall.payload.asks) = 3
    /\ kcall.payload.asks[1].price # kcall.payload.asks[3].price
    /\ Len(kret.asks) = 2
    /\ Len(kret.bids) = 2

RECURSIVE Total(_)
Total(s) == IF s = <<>> THEN 0 ELSE Head(s) + Total(Tail(s))

Closes(data) == [i \in 1..Len(data) |-> data[i].close]

\* series is the w-step simple moving average of close: same length, the
\* first w-1 entries null, every later entry the mean of its trailing window
IsSma(series, close, w) ==
    /\ Len(series) = Len(close)
    /\ \A i \in 1..Len(series) :
          IF i < w THEN series[i] = NaN
          ELSE /\ series[i] # NaN
               /\ series[i].d # 0
               /\ series[i].n * w = series[i].d * Total(SubSeq(close, i - w + 1, i))

\* C13: for a candle sequence of length >= 50, sma_20 and sma_50 have the
\* length of the input, their first 19 and 49 entries are null, and every
\* later entry is the arithmetic mean of the closes of its trailing window.
C13_SmaCorrect ==
    (Returned("calculate_technical_indicators") /\ Len(kcall.data) >= 50)
    => /\ IsSma(kret.sma_20, Closes(kcall.data), 20)
       /\ IsSma(kret.sma_50, Closes(kcall.data), 50)

\* C13 witness: more than 50 changing closes, so that both averages have
\* defined entries and consecutive windows have different means
C13_Witness ==
    /\ Returned("calculate_technical_indicators")
    /\ Len(kcall.data) > 50
    /\ kcall.data[1].close # kcall.data[2].close
    /\ kret.sma_50[51] # NaN
    /\ kret.sma_20[21] # kret.sma_20[20]

\* ema is the recursive exponential average of xs with a = 2/(span+1):
\* ema[0] = xs[0] and (span+1) ema[i] = 2 xs[i] + (span-1) ema[i-1], wherever
\* the three values are carried exactly
IsRecursiveEma(ema, xs, span) ==
    /\ Len(ema) = Len(xs)
    /\ \A i \in 1..Len(ema) : ema[i] # NaN
    /\ ema[1] = xs[1]
    /\ \A i \in 2..Len(ema) :
          (Exact(ema[i]) /\ Exact(ema[i-1]) /\ Exact(xs[i]))
          => (span + 1) * ema[i].n * xs[i].d * ema[i-1].d
               = 2 * xs[i].n * ema[i].d * ema[i-1].d
                 + (span - 1) * ema[i-1].n * ema[i].d * xs[i].d

\* C14: for 50 and more candles ema_12 and ema_26 (and the signal line,
\* span 9 over the MACD line) have the input's length, no nulls, start at
\* the first input value and follow ema[i] = a*x[i] + (1-a)*ema[i-1] with
\* a = 2/(span+1).
C14_EmaRecurrence ==
    (Returned("calculate_technical_indicators") /\ Len(kcall.data) >= 50)
    => /\ IsRecursiveEma(kret.ema_12, to_float(Closes(kcall.data)), 12)
       /\ IsRecursiveEma(kret.ema_26, to_float(Closes(kcall.data)), 26)
       /\ IsRecursiveEma(kret.macd.signal, kret.macd.macd, 9)

StrictlyIncreasing(xs) == \A i \in 2..Len(xs) : xs[i-1] < xs[i]
StrictlyDecreasing(xs) == \A i \in 2..Len(xs) : xs[i-1] > xs[i]
Constant(xs) == \A i \in 2..Len(xs) : xs[i-1] = xs[i]

\* every entry of the series that is not null has the value v
DefinedAre(series, v) ==
    \A i \in 1..Len(series) :
        series[i] # NaN => (series[i].d # 0 /\ series[i].n = v * series[i].d)

\* C15: over the 14-step trailing averages of gain and loss, every defined
\* RSI value of a strictly increasing close series is 100, every defined
\* RSI value of a strictly decreasing series is 0, and the RSI of a constant
\* series is null at every index.
C15_RsiDegenerate ==
    (Returned("calculate_technical_indicators") /\ Len(kcall.data) >= 50)
    => /\ Len(kret.rsi) = Len(kcall.data)
       /\ StrictlyIncreasing(Closes(kcall.data)) => DefinedAre(kret.rsi, 100)
       /\ StrictlyDecreasing(Closes(kcall.data)) => DefinedAre(kret.rsi, 0)
       /\ Constant(Closes(kcall.data))
            => \A i \in 1..Len(kret.rsi) : kret.rsi[i] = NaN

\* C15 witness: a rising series whose RSI is defined from the 14th entry on
C15_Witness ==
    /\ Returned("calculate_technical_indicators")
    /\ Len(kcall.data) >= 50
    /\ StrictlyIncreasing(Closes(kcall.data))
    /\ kret.rsi[13] = NaN
    /\ kret.rsi[14] = Ratio(100, 1)
    /\ kret.rsi[50] = Ratio(100, 1)

\* C17: the summary asks for 30 daily candles and the indicator floor is 50,
\* so technical_indicators is the empty mapping when the daily series is
\* empty and the bundle of empty lists otherwise; no indicator value is ever
\* computed.
C17_SummaryIndicatorsEmpty ==
    Returned("get_market_summary")
    => /\ "technical_indicators" \in DOMAIN kret
       /\ Len(kret.ohlc_1d.data) < IndicatorFloor
       /\ kret.ohlc_1d.data = <<>> => kret.technical_indicators = EmptyDict
       /\ kret.ohlc_1d.data # <<>> => kret.technical_indicators = EmptyBundle

\* C17 witness: the exchange answers the daily request with 50 or more
\* well-formed candles, of which 30 reach the summary
C17_Witness ==
    /\ Returned("get_market_summary")
    /\ kcall.dp # FetchError
    /\ kcall.dp.key = kcall.pair
    /\ Len(kcall.dp.rows) >= IndicatorFloor
    /\ Len(kret.ohlc_1d.data) = 30
    /\ kret.technical_indicators = EmptyBundle

(***************************************************************************)
(* Properties of the equity service, continued                             *)
(***************************************************************************)
\* the positions of the cache writes in a request's events
Writes(t) == {i \in 1..Len(t) : t[i].ev = "set_cached_data"}

\* st2 is st1 except possibly under key
SameExcept(st1, st2, key) ==
    /\ (DOMAIN st1) \ {key} = (DOMAIN st2) \ {key}
    /\ \A k \in (DOMAIN st1) \ {key} : st2[k] = st1[k]

\* C16: a quote, history or info request that ends with 404 or 500 leaves
\* every cache entry unchanged and issues no write; a hit issues no write
\* and leaves the cache unchanged; a successful miss issues exactly one
\* write, under the key of the query: every other entry is unchanged and,
\* with the store reachable, the entry under the key is the complete
\* response payload (with the store unreachable nothing changes).
C16_CacheLifecycle ==
    [][(nreq' = nreq + 1 /\ req'.op \in CachedOps)
       => LET key == KeyOf(req')
          IN /\ resp'.status # 200
                => (store' = store /\ Writes(trace') = {})
             /\ (resp'.status = 200 /\ ~HasProviderCall(trace'))
                => (store' = store /\ Writes(trace') = {})
             /\ (resp'.status = 200 /\ HasProviderCall(trace'))
                => /\ Cardinality(Writes(trace')) = 1
                   /\ \A i \in Writes(trace') : trace'[i].key = key
                   /\ SameExcept(store, store', key)
                   /\ IF redis_client = "up"
                      THEN /\ key \in DOMAIN store'
                           /\ store'[key].value = json_dumps(resp'.body)
                           /\ resp' = FreshResponse(req')
                      ELSE store' = store]_vars

\* C16 witness: with an entry in the cache, a second request under another
\* key missed, succeeded and was stored beside it
C16_Witness ==
    /\ nreq = 2
    /\ redis_client = "up"
    /\ req.op \in CachedOps
    /\ resp.status = 200
    /\ HasProviderCall(trace)
    /\ Cardinality(DOMAIN store) = 2
    /\ store[KeyOf(req)].value = json_dumps(resp.body)

(***************************************************************************)
(* The cache keys of two queries                                           *)
(*                                                                         *)
(* symbol is the <symbol> segment of the URL, period and interval are      *)
(* query parameters: any text.  A query is the data kind with the          *)
(* arguments its endpoint reads.                                           *)
(***************************************************************************)
KeySymbols == {"AAPL", "aapl", "AAPL:1d"}
KeyPeriods == {"1d", "1y", "1d:1y"}
KeyIntervals == {"1d", "1m"}

Queries ==
    {[op |-> op, symbol |-> s] : op \in {"quote", "info"}, s \in KeySymbols}
    \cup {[op |-> "history", symbol |-> s, period |-> p, interval |-> i] :
             s \in KeySymbols, p \in KeyPeriods, i \in KeyIntervals}

KeyCalls == {[op |-> "cache_key_name", q1 |-> q1, q2 |-> q2] :
                q1 \in Queries, q2 \in Queries}

InitKeys ==
    /\ kcall \in KeyCalls
    /\ kret = Pending
    /\ redis_client = "none"
    /\ store = [k \in {} |-> None]
    /\ req = None
    /\ resp = None
    /\ trace = <<>>
    /\ nreq = 0
    /\ inflight = EmptyBag

\* the key each of the two queries is looked up and stored under
ResolveKeys ==
    /\ kcall.op = "cache_key_name"
    /\ kret = Pending
    /\ kret' = [k1 |-> KeyOf(kcall.q1), k2 |-> KeyOf(kcall.q2)]
    /\ UNCHANGED <<kcall, svars>>

NextKeys == ResolveKeys

SpecKeys == InitKeys /\ [][NextKeys]_vars

\* C18: two queries (data kind, symbol, period, interval) have the same
\* cache key if and only if they are the same query, so that an entry can
\* only be served to the query that stored it.
C18_KeyIsolation ==
    Returned("cache_key_name")
    => ((kret.k1 = kret.k2) <=> (kcall.q1 = kcall.q2))

====
